---- MODULE Spec2Model ----
(***************************************************************************)
(* MyScaleRM (dspy/retrieve/MyScaleRM.py): a retrieval module that picks   *)
(* an embedding source, embeds the query, string-composes a nearest-       *)
(* neighbour SQL query, issues it through a clickhouse client and reshapes *)
(* the rows into passages.                                                 *)
(*                                                                         *)
(* One action per public operation: the constructor, get_embeddings and    *)
(* forward.  Each action is the whole call.  The external systems (model   *)
(* loading, the OpenAI endpoint, the local model, the database) answer     *)
(* nondeterministically.  The variable `last` is the observable record of  *)
(* the most recent call: its arguments, the external calls it made in      *)
(* order with their outcomes, the exception it raised or the value it      *)
(* returned.                                                               *)
(*                                                                         *)
(* Python values: Optional[T] is <<>> (None) or <<x>>; a database value is *)
(* a tagged record so that str() is a real conversion.                     *)
(***************************************************************************)
EXTENDS Integers, Sequences, FiniteSets, TLC

VARIABLES adapters,       \* the MyScaleRM objects constructed so far, in order
          environ,        \* os.environ['OPENAI_API_KEY'] (Optional)
          cache_turn_on,  \* dsp.modules.cache_utils.cache_turn_on
          cache,          \* CacheMemory: input batch -> memoized result
          last            \* the most recent call, as its caller observes it

vars == <<adapters, environ, cache_turn_on, cache, last>>

\* ---------------------------------------------------------------- bounds
MaxAdapters == 1

\* ------------------------------------------------------- Python values
None == <<>>
Some(x) == <<x>>

\* bool(x) of an Optional[str]: None and "" are falsy.
Truthy(opt) == opt # None /\ opt[1] # ""

\* bool(x) of an Optional[list]: None and [] are falsy.
TruthyList(opt) == opt # None /\ opt[1] # <<>>

PyStr(s) == [t |-> "str", s |-> s, n |-> 0]
PyInt(n) == [t |-> "int", s |-> "", n |-> n]

\* str(value), as the f-string of the row formatter applies it.
Str(v) == IF v.t = "str" THEN v.s ELSE ToString(v.n)

\* k: int = 3
DefaultK == 3

\* ------------------------------------------------------------- inputs
\* Constructor arguments.  None and [] are the falsy metadata_columns.
ApiKeys == {None, Some("k1"), Some("k2")}
OpenaiModels == {None, Some("text-embedding-3-small")}
LocalModels == {None, Some("bert")}
MetadataColumnsArgs == {None, Some(<<>>), Some(<<"text">>), Some(<<"title", "text">>)}
KDefaults == {DefaultK}

\* Call arguments: a query is an Optional[str]; a batch is a list of them.
UserQueries == {None, Some("q1")}
KOverrides == {None, Some(0), Some(1)}
Batches == {<<Some("q1")>>, <<Some("q2"), Some("q1")>>}

\* What the external systems can answer.
LoadOutcomes == {"ok", "ModuleNotFoundError", "ValueError"}
RemoteOutcomes == {"ok", "RateLimitError", "APIError"}
LocalOutcomes == {"ok", "RuntimeError"}
DbOutcomes == {"ok", "DatabaseError"}

\* The table the database holds: two rows, one with a non-string value.
Table ==
    <<[title |-> PyStr("A"), text |-> PyStr("x")],
      [title |-> PyStr("B"), text |-> PyInt(7)]>>

\* The observable record of a call.
Call(fn, out) == [fn |-> fn, out |-> out]

Observed(op, self, args, calls, exc, embeddings, cred, sql, rows, ret) ==
    [op |-> op, self |-> self, args |-> args, calls |-> calls, exc |-> exc,
     embeddings |-> embeddings, cred |-> cred, sql |-> sql, rows |-> rows,
     ret |-> ret]

\* ------------------------------------------------------------ __init__
\* Mutant: `if metadata_columns is None:` (an empty list passes).
MetadataColumnsMissing_only_none(metadata_columns) == metadata_columns = None

\* `if not metadata_columns:`
MetadataColumnsMissing(metadata_columns) == ~TruthyList(metadata_columns)

\* setup_local_model: import torch/transformers (ModuleNotFoundError), load
\* model and tokenizer (ValueError), then set use_local_model.  The device
\* it picks (cuda, mps, cpu) is read by no other state and is left out.
setup_local_model(model_name, load) ==
    [calls |-> <<Call("from_pretrained", load)>>,
     exc |-> IF load = "ok" THEN None ELSE Some(load),
     use_local_model |-> (load = "ok")]

\* The constructor, given its arguments and the outcome of model loading:
\* the exception it raises (or None), the external calls it makes, the
\* object it builds and the process environment it leaves.
__init__(a, load, env) ==
    IF MetadataColumnsMissing(a.metadata_columns)
    THEN [exc |-> Some("ValueError"), calls |-> <<>>, obj |-> None, environ |-> env]
    ELSE LET fields == [metadata_columns |-> a.metadata_columns[1],
                        vector_column |-> "vector",
                        database |-> "default",
                        table |-> "docs",
                        k |-> a.k,
                        openai_api_key |-> a.openai_api_key,
                        model |-> a.openai_model,
                        use_local_model |-> FALSE]
         IN  IF Truthy(a.local_embed_model)
             THEN LET s == setup_local_model(a.local_embed_model[1], load)
                  IN  [exc |-> s.exc, calls |-> s.calls,
                       obj |-> IF s.exc = None
                               THEN Some([fields EXCEPT !.use_local_model = s.use_local_model])
                               ELSE None,
                       environ |-> env]
             ELSE IF Truthy(a.openai_api_key)
             THEN [exc |-> None, calls |-> <<Call("environ.set", "ok")>>,
                   obj |-> Some(fields), environ |-> a.openai_api_key]
             ELSE [exc |-> None, calls |-> <<>>, obj |-> Some(fields), environ |-> env]

CtorArgs ==
    [metadata_columns : MetadataColumnsArgs, k : KDefaults,
     openai_api_key : ApiKeys, openai_model : OpenaiModels,
     local_embed_model : LocalModels]

\* Model loading is attempted only when the constructor reaches it.
LoadOutcomesFor(a) ==
    IF ~MetadataColumnsMissing(a.metadata_columns) /\ Truthy(a.local_embed_model)
    THEN LoadOutcomes ELSE {"ok"}

Construct ==
    /\ Len(adapters) < MaxAdapters
    /\ \E a \in CtorArgs :
       \E load \in LoadOutcomesFor(a) :
         LET r == __init__(a, load, environ)
         IN  /\ adapters' = IF r.obj = None THEN adapters ELSE Append(adapters, r.obj[1])
             /\ environ' = r.environ
             /\ last' = Observed("__init__",
                                 IF r.obj = None THEN 0 ELSE Len(adapters) + 1,
                                 a, r.calls, r.exc, None, None, None, <<>>, None)
    /\ UNCHANGED <<cache_turn_on, cache>>

\* ------------------------------------------------------ get_embeddings
\* The vectors the two embedding sources compute for a query string.
RemoteEmbedding(q) == IF q = "q1" THEN <<11, 12, 13>> ELSE <<21, 22, 23>>
LocalEmbedding(q) == IF q = "q1" THEN <<51, 52, 53>> ELSE <<61, 62, 63>>

\* openai.embeddings.create(model, input=queries): one embedding per input,
\* in input order; then `response.data[0].embedding`.
_get_embeddings_from_openai(self, queries, out, env) ==
    IF out = "ok"
    THEN LET data == [i \in 1..Len(queries) |-> RemoteEmbedding(queries[i][1])]
         IN  [calls |-> <<Call("openai.embeddings.create", out)>>,
              exc |-> None, ret |-> Some(data[1]), cred |-> Some(env)]
    ELSE [calls |-> <<Call("openai.embeddings.create", out)>>,
          exc |-> Some(out), ret |-> None, cred |-> Some(env)]

\* tokenizer(query) -> model(**inputs) -> last_hidden_state.mean(dim=1)
\* is one pooled vector per input; then `.tolist()[0]`.
_get_embedding_from_local_model(self, query, out) ==
    IF out = "ok"
    THEN LET pooled == [i \in 1..Len(query) |-> LocalEmbedding(query[i][1])]
         IN  [calls |-> <<Call("local_model", out)>>,
              exc |-> None, ret |-> Some(pooled[1]), cred |-> None]
    ELSE [calls |-> <<Call("local_model", out)>>,
          exc |-> Some(out), ret |-> None, cred |-> None]

\* Mutant: the local model takes precedence over the remote credentials.
EmbeddingPath_local_first(self) ==
    IF self.use_local_model THEN "local"
    ELSE IF Truthy(self.openai_api_key) /\ Truthy(self.model) THEN "remote"
    ELSE "none"

\* The branch _get_embeddings takes: "remote", "local" or "none".
EmbeddingPath(self) ==
    IF Truthy(self.openai_api_key) /\ Truthy(self.model) THEN "remote"
    ELSE IF self.use_local_model THEN "local"
    ELSE "none"

_get_embeddings(self, queries, out, env) ==
    CASE EmbeddingPath(self) = "remote" ->
           _get_embeddings_from_openai(self, queries, out, env)
      [] EmbeddingPath(self) = "local" ->
           _get_embedding_from_local_model(self, queries, out)
      [] OTHER ->
           [calls |-> <<>>, exc |-> Some("ValueError"), ret |-> None, cred |-> None]

\* CacheMemory.cache(func)(queries): a memo keyed by the input batch.  A hit
\* returns the stored result without calling func; a miss calls func and
\* stores what it returns (an exception stores nothing).
CacheMemory_cache(mem, queries, computed) ==
    IF queries \in DOMAIN mem
    THEN [calls |-> <<Call("CacheMemory", "hit")>>, exc |-> None,
          ret |-> Some(mem[queries]), cred |-> None, cache |-> mem]
    ELSE [calls |-> <<Call("CacheMemory", "miss")>> \o computed.calls,
          exc |-> computed.exc, ret |-> computed.ret, cred |-> computed.cred,
          cache |-> IF computed.exc = None
                    THEN [b \in DOMAIN mem \cup {queries} |->
                            IF b = queries THEN computed.ret[1] ELSE mem[b]]
                    ELSE mem]

\* Mutant: the cache switch is ignored and every call computes.
get_embeddings_uncached(self, queries, out, env, turn_on, mem) ==
    LET r == _get_embeddings(self, queries, out, env)
    IN  [calls |-> r.calls, exc |-> r.exc, ret |-> r.ret, cred |-> r.cred,
         cache |-> mem]

get_embeddings(self, queries, out, env, turn_on, mem) ==
    IF turn_on
    THEN CacheMemory_cache(mem, queries, _get_embeddings(self, queries, out, env))
    ELSE LET r == _get_embeddings(self, queries, out, env)
         IN  [calls |-> r.calls, exc |-> r.exc, ret |-> r.ret, cred |-> r.cred,
              cache |-> mem]

\* The answers the selected embedding source can give to this call; a source
\* that is not called gives none, and a None input cannot be embedded.
EmbedOutcomes(self, queries, turn_on, mem) ==
    LET all == CASE EmbeddingPath(self) = "remote" -> RemoteOutcomes
                 [] EmbeddingPath(self) = "local" -> LocalOutcomes
                 [] OTHER -> {"ok"}
    IN  IF turn_on /\ queries \in DOMAIN mem THEN {"ok"}
        ELSE IF \E i \in 1..Len(queries) : queries[i] = None
        THEN IF all = {"ok"} THEN all ELSE all \ {"ok"}
        ELSE all

GetEmbeddings ==
    /\ \E s \in 1..Len(adapters), queries \in Batches :
       \E out \in EmbedOutcomes(adapters[s], queries, cache_turn_on, cache) :
         LET e == get_embeddings(adapters[s], queries, out, environ, cache_turn_on, cache)
         IN  /\ cache' = e.cache
             /\ last' = Observed("get_embeddings", s, [queries |-> queries],
                                 e.calls, e.exc, e.ret, e.cred, None, <<>>, e.ret)
    /\ UNCHANGED <<adapters, environ, cache_turn_on>>

\* ------------------------------------------------------------- forward
\* Mutant: the None check is missing.
QueryMissing_never(user_query) == FALSE

\* `if user_query is None:`
QueryMissing(user_query) == user_query = None

\* Mutant: `k = k or self.k` (an override of 0 falls back to the default).
EffectiveK_or(k, self_k) == IF k # None /\ k[1] # 0 THEN k[1] ELSE self_k

\* `k = k if k is not None else self.k`
EffectiveK(k, self_k) == IF k # None THEN k[1] ELSE self_k

\* Mutant: the embedding step's exception is swallowed (`except: pass`).
Raised_swallowed(e) == FALSE

\* An exception raised by get_embeddings leaves forward at line 208.
Raised(e) == e.exc # None

\* sep.join(strs)
RECURSIVE Join(_, _)
Join(strs, sep) ==
    IF strs = <<>> THEN ""
    ELSE IF Len(strs) = 1 THEN strs[1]
    ELSE strs[1] \o sep \o Join(Tail(strs), sep)

\* The f-string of lines 210-213, kept as its interpolated parts.
BuildQuery(self, embeddings, k) ==
    [columns_string |-> Join(self.metadata_columns, ", "),
     vector_column |-> self.vector_column,
     embeddings |-> embeddings,
     database |-> self.database,
     table |-> self.table,
     limit |-> k]

\* The row orders `ORDER BY dist LIMIT k` can return: distinct rows of the
\* table, at most k of them (the distances depend on the embedding).
RowOrders(k) ==
    LET n == Len(Table)
        m == IF k < n THEN (IF k < 0 THEN 0 ELSE k) ELSE n
    IN  {ids \in UNION {[1..j -> 1..n] : j \in 0..m} :
           \A i, j \in 1..Len(ids) : i # j => ids[i] # ids[j]}

\* result.named_results(): each row maps the selected columns and "dist".
NamedResults(metadata_columns, ids) ==
    LET selected == {metadata_columns[c] : c \in 1..Len(metadata_columns)} \cup {"dist"}
    IN  [i \in 1..Len(ids) |->
           [c \in selected |-> IF c = "dist" THEN PyInt(i) ELSE Table[ids[i]][c]]]

\* Mutant: every passage is labelled, also with a single column.
FormatRow_always_labelled(metadata_columns, row) ==
    LET row_strings == [c \in 1..Len(metadata_columns) |->
                          metadata_columns[c] \o ": " \o Str(row[metadata_columns[c]])]
    IN  PyStr(Join(row_strings, "\n"))

\* One row's passage (lines 218-223).
FormatRow(metadata_columns, row) ==
    IF Len(metadata_columns) = 1
    THEN row[metadata_columns[1]]
    ELSE LET row_strings == [c \in 1..Len(metadata_columns) |->
                               metadata_columns[c] \o ": " \o Str(row[metadata_columns[c]])]
         IN  PyStr(Join(row_strings, "\n"))

\* Mutant: `results.insert(0, ...)` instead of append.
RECURSIVE FormatRows_prepend(_, _, _)
FormatRows_prepend(metadata_columns, rows, results) ==
    IF rows = <<>> THEN results
    ELSE FormatRows_prepend(metadata_columns, Tail(rows),
                            <<FormatRow(metadata_columns, Head(rows))>> \o results)

\* The loop of lines 216-223: append one passage per row, in row order.
RECURSIVE FormatRows(_, _, _)
FormatRows(metadata_columns, rows, results) ==
    IF rows = <<>> THEN results
    ELSE FormatRows(metadata_columns, Tail(rows),
                    Append(results, FormatRow(metadata_columns, Head(rows))))

\* dspy.Prediction(passages=[dotdict({"long_text": passage}) ...])
Prediction(results) ==
    [passages |-> [i \in 1..Len(results) |-> [long_text |-> results[i]]]]

Forward ==
    /\ \E s \in 1..Len(adapters), user_query \in UserQueries, k \in KOverrides :
         LET self == adapters[s]
             args == [user_query |-> user_query, k |-> k]
         IN  IF QueryMissing(user_query)
             THEN /\ last' = Observed("forward", s, args, <<>>, Some("ValueError"),
                                      None, None, None, <<>>, None)
                  /\ cache' = cache
             ELSE \E out \in EmbedOutcomes(self, <<user_query>>, cache_turn_on, cache) :
                  LET kk == EffectiveK(k, self.k)
                      e == get_embeddings(self, <<user_query>>, out, environ,
                                          cache_turn_on, cache)
                      sql == BuildQuery(self, e.ret, kk)
                  IN  /\ cache' = e.cache
                      /\ IF Raised(e)
                         THEN last' = Observed("forward", s, args, e.calls, e.exc,
                                               e.ret, e.cred, None, <<>>, None)
                         ELSE \E db \in DbOutcomes :
                              IF db # "ok"
                              THEN last' = Observed("forward", s, args,
                                                    Append(e.calls, Call("client.query", db)),
                                                    Some(db), e.ret, e.cred, Some(sql),
                                                    <<>>, None)
                              ELSE \E ids \in RowOrders(sql.limit) :
                                   LET rows == NamedResults(self.metadata_columns, ids)
                                       results == FormatRows(self.metadata_columns, rows, <<>>)
                                   IN  last' = Observed("forward", s, args,
                                                        Append(e.calls, Call("client.query", db)),
                                                        None, e.ret, e.cred, Some(sql),
                                                        rows, Some(Prediction(results)))
    /\ UNCHANGED <<adapters, environ, cache_turn_on>>

Init ==
    /\ adapters = <<>>
    /\ environ = None
    /\ cache_turn_on \in BOOLEAN
    /\ cache = [b \in {} |-> <<>>]
    /\ last = Observed("import", 0, <<>>, <<>>, None, None, None, None, <<>>, None)

Next == Construct \/ GetEmbeddings \/ Forward

Spec == Init /\ [][Next]_vars

\* ------------------------------------------------------------ the claims
\* What the formulas read from `last`.
Self == adapters[last.self]

OkOuts == {"ok", "hit", "miss"}
ProviderFns == {"openai.embeddings.create", "local_model"}

Invoked(obs, fn) == \E i \in 1..Len(obs.calls) : obs.calls[i].fn = fn
Count(obs, fns) == Cardinality({i \in 1..Len(obs.calls) : obs.calls[i].fn \in fns})
CacheHit(obs) ==
    \E i \in 1..Len(obs.calls) : obs.calls[i] = Call("CacheMemory", "hit")

\* The call ran the embedding step (get_embeddings, or forward with a query).
EmbeddingStep(obs) ==
    \/ obs.op = "get_embeddings"
    \/ obs.op = "forward" /\ obs.args.user_query # None

BatchOf(obs) ==
    IF obs.op = "get_embeddings" THEN obs.args.queries ELSE <<obs.args.user_query>>

Returned(obs) == obs.op = "forward" /\ obs.ret # None

\* How the embedding step of the observed call relates to the adapter's
\* configuration (the precedence rule).
PathFollowsConfiguration ==
    LET remote == Self.openai_api_key \notin {None, Some("")}
                  /\ Self.model \notin {None, Some("")}
        local == ~remote /\ Self.use_local_model
    IN  /\ Invoked(last, "openai.embeddings.create") <=> remote
        /\ Invoked(last, "local_model") <=> local
        /\ Count(last, ProviderFns) <= 1
        /\ (~remote /\ ~local) =>
             /\ last.exc = Some("ValueError")
             /\ Count(last, ProviderFns) = 0
             /\ last.embeddings = None

\* C1 (as stated): in every get_embeddings call the remote path is invoked
\* iff an API key and a model name are configured, otherwise the local path
\* iff a local model is loaded, otherwise ValueError and no provider call.
C1_PathPerCall == EmbeddingStep(last) => PathFollowsConfiguration

\* C1 (amended): the same, for every get_embeddings call that is not answered
\* from the memoization cache; a call answered from the cache invokes no
\* provider.
C1_PathPerComputedCall ==
    EmbeddingStep(last) =>
        IF CacheHit(last)
        THEN Count(last, ProviderFns) = 0 /\ cache_turn_on
        ELSE PathFollowsConfiguration

C1_Witness ==
    /\ last.op = "get_embeddings"
    /\ ~CacheHit(last)
    /\ Self.openai_api_key = Some("k1") /\ Self.model # None /\ Self.use_local_model
    /\ Invoked(last, "openai.embeddings.create")
    /\ last.exc = None

\* C2: a constructor call with an empty or None metadata_columns raises
\* ValueError, builds no adapter, makes no external call and leaves the
\* process environment and the cache as they were.
C2_EmptyColumnsRejected ==
    [][(last'.op = "__init__"
          /\ last'.args.metadata_columns \in {None, Some(<<>>)})
       => /\ last'.exc = Some("ValueError")
          /\ last'.calls = <<>>
          /\ adapters' = adapters
          /\ environ' = environ
          /\ cache' = cache]_vars

C2_Witness ==
    /\ last.op = "__init__"
    /\ last.args.metadata_columns = Some(<<>>)
    /\ last.args.local_embed_model # None
    /\ last.args.openai_api_key # None
    /\ last.exc = Some("ValueError")
    /\ adapters = <<>>
    /\ environ = None

\* C3: forward(None) raises ValueError and makes no call at all: no cache
\* lookup, no remote or local embedding call, no database query.
C3_NoQueryNoCalls ==
    (last.op = "forward" /\ last.args.user_query = None)
    => /\ last.exc = Some("ValueError")
       /\ last.calls = <<>>
       /\ last.embeddings = None
       /\ last.sql = None
       /\ last.ret = None

C3_Witness ==
    /\ last.op = "forward"
    /\ last.args.user_query = None
    /\ last.exc = Some("ValueError")
    /\ Self.openai_api_key # None /\ Self.model # None
    /\ cache_turn_on

\* C4: a successful get_embeddings call returns one embedding per query
\* string: as many elements as the batch has, the i-th being the embedding
\* of the i-th query.
C4_OneEmbeddingPerString ==
    (last.op = "get_embeddings" /\ last.exc = None)
    => /\ Len(last.ret[1]) = Len(last.args.queries)
       /\ \A i \in 1..Len(last.args.queries) :
            last.ret[1][i] \in {RemoteEmbedding(last.args.queries[i][1]),
                                LocalEmbedding(last.args.queries[i][1])}

\* C5: in a forward call a failure ends the call: the failing call is the
\* last call made, its exception is the one forward raises, and no
\* Prediction is returned; the database is queried at most once and only
\* after the embedding step returned a value; the embedding provider is
\* called at most once.
C5_FailureAborts ==
    last.op = "forward" =>
        /\ Count(last, ProviderFns) <= 1
        /\ Count(last, {"client.query"}) <= 1
        /\ \A i \in 1..Len(last.calls) :
             /\ last.calls[i].out \notin OkOuts =>
                  /\ i = Len(last.calls)
                  /\ last.exc = Some(last.calls[i].out)
             /\ last.calls[i].fn = "client.query" =>
                  /\ last.embeddings # None
                  /\ \E j \in 1..(i - 1) :
                       last.calls[j] \in {Call("openai.embeddings.create", "ok"),
                                          Call("local_model", "ok"),
                                          Call("CacheMemory", "hit")}
        /\ last.exc # None => last.ret = None
        /\ last.ret # None => last.calls[Len(last.calls)] = Call("client.query", "ok")

C5_Witness ==
    /\ last.op = "forward"
    /\ last.exc = Some("RateLimitError")
    /\ last.calls[Len(last.calls)] = Call("openai.embeddings.create", "RateLimitError")
    /\ last.ret = None

\* C6: the Prediction holds exactly one passage per returned row, the i-th
\* passage being the formatting of the i-th row.
C6_RowOrderPreserved ==
    Returned(last) =>
        /\ Len(last.ret[1].passages) = Len(last.rows)
        /\ \A i \in 1..Len(last.rows) :
             last.ret[1].passages[i] =
                 [long_text |-> FormatRow(Self.metadata_columns, last.rows[i])]

C6_Witness ==
    /\ Returned(last)
    /\ Len(last.rows) = 2
    /\ last.rows[1].text = PyInt(7)
    /\ last.ret[1].passages[1] # last.ret[1].passages[2]

\* C7: with one metadata column the passage is that column's raw value; with
\* two columns [a, b] it is "a: <val_a>\nb: <val_b>", in configured order.
C7_PassageFormat ==
    Returned(last) =>
        LET cols == Self.metadata_columns
        IN  \A i \in 1..Len(last.rows) :
              LET passage == last.ret[1].passages[i].long_text
                  row == last.rows[i]
              IN  /\ Len(cols) = 1 => passage = row[cols[1]]
                  /\ Len(cols) = 2 =>
                       /\ passage.t = "str"
                       /\ passage.s = cols[1] \o ": " \o Str(row[cols[1]]) \o "\n"
                                      \o cols[2] \o ": " \o Str(row[cols[2]])

C7_Witness ==
    /\ Returned(last)
    /\ Self.metadata_columns = <<"title", "text">>
    /\ Len(last.rows) = 2
    /\ last.ret[1].passages[1].long_text = PyStr("title: B\ntext: 7")
    /\ last.ret[1].passages[2].long_text = PyStr("title: A\ntext: x")

C7_WitnessRaw ==
    /\ Returned(last)
    /\ Self.metadata_columns = <<"text">>
    /\ Len(last.rows) = 1
    /\ last.ret[1].passages[1].long_text = PyInt(7)

\* C8 (as stated): the k in the LIMIT of every query forward issues is a
\* positive integer, and the Prediction holds at most k passages.
C8_PositiveK ==
    (last.op = "forward" /\ last.sql # None)
    => /\ last.sql[1].limit > 0
       /\ last.ret # None => Len(last.ret[1].passages) <= last.sql[1].limit

\* C8 (amended): the k in the LIMIT is the caller's override when one is
\* given (0 included) and the constructor's k otherwise, unvalidated; for a
\* k that is not negative the Prediction holds at most k passages.
C8_KPassedThrough ==
    (last.op = "forward" /\ last.sql # None)
    => /\ last.sql[1].limit =
            (IF last.args.k # None THEN last.args.k[1] ELSE Self.k)
       /\ (last.ret # None /\ last.sql[1].limit >= 0)
            => Len(last.ret[1].passages) <= last.sql[1].limit

C8_Witness ==
    /\ Returned(last)
    /\ last.args.k = Some(0)
    /\ last.sql[1].limit = 0
    /\ last.ret[1].passages = <<>>

\* C9: with caching on, a batch whose get_embeddings call returned is
\* memoized and stays memoized, and a call with a memoized batch returns the
\* stored result without calling a provider; with caching off every call
\* calls the selected provider.
C9_Memoized ==
    [][EmbeddingStep(last') =>
         LET batch == BatchOf(last')
         IN  /\ (cache_turn_on /\ batch \in DOMAIN cache) =>
                  /\ Count(last', ProviderFns) = 0
                  /\ last'.embeddings = Some(cache[batch])
             /\ (cache_turn_on /\ last'.embeddings # None) =>
                  /\ batch \in DOMAIN cache'
                  /\ cache'[batch] = last'.embeddings[1]
             /\ \A b \in DOMAIN cache :
                  b \in DOMAIN cache' /\ cache'[b] = cache[b]
             /\ (~cache_turn_on /\ EmbeddingPath(adapters[last'.self]) # "none") =>
                  /\ Count(last', ProviderFns) = 1
                  /\ cache' = cache]_vars

C9_Witness ==
    /\ last.op = "get_embeddings"
    /\ last.calls = <<Call("CacheMemory", "hit")>>
    /\ last.args.queries = <<Some("q2"), Some("q1")>>
    /\ last.ret = Some(cache[last.args.queries])

\* C10: whenever an adapter calls the remote embedding endpoint, the
\* OPENAI_API_KEY in effect is that adapter's own configured key.
C10_OwnKeyInEffect ==
    Invoked(last, "openai.embeddings.create")
    => last.cred = Some(Self.openai_api_key)
====
